---- MODULE Spec2Model ----
(***************************************************************************)
(* SelectableTreeWithConfig (gorets/directory-tree): the selection state   *)
(* of a lazily loaded tree, kept as a checked-id set plus a map of         *)
(* explicit actions, applied from and emitted to an external config        *)
(* record {enabled, disabled}.                                             *)
(*                                                                         *)
(* Scheduling model.  A change of props or state is rendered and committed *)
(* in the step that makes it; the passive effects of that commit run in a  *)
(* later step (FlushEffects), in declaration order, and race with the two  *)
(* timers (the setTimeout(0) that resets isApplyingConfig and the debounce *)
(* timer).  A click is a discrete event: it is dispatched against a commit *)
(* whose effects have run, and the effects of its own commit run inside    *)
(* the same step.                                                          *)
(***************************************************************************)
EXTENDS Integers, Sequences, FiniteSets, TLC

\* Size of the node universe: ids 1..NumNodes.
NumNodes == 3
\* Number of toggles and config changes a behaviour may hold.
MaxEvents == 2

Nodes == 1..NumNodes

\* null, the parent of a root item.
ROOT_PARENT_ID == 0

\* The parentId field of the items of the universe: the heap-shaped tree
\* 1 -> {2, 3}, 2 -> {4, 5}, ...; item 1 carries no parentId.
ParentIdField(n) == n \div 2

\* (item).parentId || null
getParentId(n) == IF ParentIdField(n) = 0 THEN ROOT_PARENT_ID ELSE ParentIdField(n)

VARIABLES
    items,               \* prop: the ids of the loaded items (flat list)
    config,              \* prop: the external record [enabled, disabled]
    checkedItems,        \* state: Set of checked ids
    explicitActions,     \* state: Map id -> action, in insertion order
    isApplyingConfig,    \* ref: the apply flag
    resetTimer,          \* the setTimeout(0) that resets the flag is pending
    effectItems,         \* items the apply effect last ran with (its deps)
    configChanged,       \* config identity changed since the apply effect ran
    notifyPending,       \* explicitActions changed since the notify effect ran
    hasCleanup,          \* the last notify run returned its cleanup function
    debounce,            \* pending debounce timers: the actions each closes over, oldest first
    debouncedNotifyConfigChange,  \* ref: it holds the id of the newest pending timer
    previousConfigRef,   \* ref: <<last emitted record>>, or <<>> for null
    editedSinceApply,    \* history: a toggle was processed after the last apply
    itemsApplied,        \* history: no items arrived since the last apply ran
    last,                \* history: the step just taken
    nEvents,             \* history: toggles and config changes so far
    hasLoader,           \* prop: onNodeLoad ?? onLoadNode is supplied
    isControlled,        \* prop: expandedNodes is supplied
    expandedNodes,       \* the expandedNodes prop, or internalExpandedNodes
    loadedParentsRef,    \* ref: Set of the parent ids already requested
    loadingNodes,        \* state: Set of the parent ids showing the spinner
    loadTimers,          \* pending setTimeout(() => callLoad(id), 0), by id
    request,             \* history: per parent id, how its last loader call ended
    mounted,             \* the component is mounted
    uncaught             \* history: an exception has left callLoad

\* What the lazy loading and the expansion of nodes read and write.
loadVars == <<hasLoader, isControlled, expandedNodes, loadedParentsRef,
              loadingNodes, loadTimers, request, mounted, uncaught>>

\* What the selection reads and writes, the items and the history apart.
selectionVars == <<config, checkedItems, explicitActions, isApplyingConfig,
                   resetTimer, effectItems, configChanged, notifyPending,
                   hasCleanup, debounce, debouncedNotifyConfigChange,
                   previousConfigRef, editedSinceApply, nEvents>>

vars == <<items, itemsApplied, last, selectionVars, loadVars>>

----------------------------------------------------------------------------
\* Sequences and the insertion-ordered Map

Range(s) == {s[i] : i \in 1..Len(s)}

Entry(k, v) == [id |-> k, action |-> v]

MapHas(m, k) == \E i \in 1..Len(m) : m[i].id = k

\* Map.get: the action of k, "none" for undefined.
MapGet(m, k) ==
    IF MapHas(m, k) THEN m[CHOOSE i \in 1..Len(m) : m[i].id = k].action ELSE "none"

\* A set that appends an entry whether or not the key is present.
MapSetAppending(m, k, v) == Append(m, Entry(k, v))

\* Map.set: an existing key keeps its place, a new key is appended.
MapSet(m, k, v) ==
    IF MapHas(m, k)
    THEN [i \in 1..Len(m) |-> IF m[i].id = k THEN Entry(k, v) ELSE m[i]]
    ELSE Append(m, Entry(k, v))

\* Map.delete
MapDelete(m, k) == SelectSeq(m, LAMBDA e : e.id # k)

RECURSIVE MapDeleteAll(_, _)
MapDeleteAll(m, ks) ==
    IF ks = {} THEN m
    ELSE LET k == CHOOSE x \in ks : TRUE IN MapDeleteAll(MapDelete(m, k), ks \ {k})

RECURSIVE MapSetAll(_, _, _)
\* ids.forEach(id => actions.set(id, v))
MapSetAll(m, ids, v) ==
    IF ids = <<>> THEN m ELSE MapSetAll(MapSet(m, Head(ids), v), Tail(ids), v)

MapKeys(m) == {m[i].id : i \in 1..Len(m)}

----------------------------------------------------------------------------
\* helpers.ts

\* items.filter(item => getParentId(item) === parentId)
getChildrenFromFlat(its, parentId) == {n \in its : getParentId(n) = parentId}

isRootItem(n) == getParentId(n) = ROOT_PARENT_ID

getRootItems(its) == {n \in its : isRootItem(n)}

\* The item with this id, or 0 for null.
findItemInFlat(its, targetId) == IF targetId \in its THEN targetId ELSE 0

RECURSIVE getAllDescendantIds(_, _)
\* collect(item): every child found in the flat list, then its descendants.
getAllDescendantIds(its, item) ==
    LET children == getChildrenFromFlat(its, item)
    IN children \cup UNION {getAllDescendantIds(its, c) : c \in children}

\* A toggle that reaches the item alone and not its children.
toggleItemOnly(its, item, check, checkedSet) ==
    IF check THEN checkedSet \cup {item} ELSE checkedSet \ {item}

RECURSIVE toggleItemsRecursively(_, _, _, _)
\* The checked set after add/delete of the item and, recursively, its children.
toggleItemsRecursively(its, item, check, checkedSet) ==
    LET own == IF check THEN checkedSet \cup {item} ELSE checkedSet \ {item}
        children == getChildrenFromFlat(its, item)
        RECURSIVE Over(_, _)
        Over(cs, acc) ==
            IF cs = {} THEN acc
            ELSE LET c == CHOOSE x \in cs : TRUE
                 IN Over(cs \ {c}, toggleItemsRecursively(its, c, check, acc))
    IN Over(children, own)

----------------------------------------------------------------------------
\* SelectableTreeWithConfig.tsx: pure parts

\* An actions Map that is added to the Map of the last apply.
BuildActionsOntoPrevious(cfg) ==
    explicitActions
      \o MapSetAll(MapSetAll(<<>>, cfg.enabled, "enabled"), cfg.disabled, "disabled")

\* The actions Map built from a record: enabled first, then disabled.
BuildActions(cfg) ==
    MapSetAll(MapSetAll(<<>>, cfg.enabled, "enabled"), cfg.disabled, "disabled")

\* An applyConfig that starts from the root items of the list only.
applyConfigFromRoots(its, itemList, parentEnabled, actions) ==
    LET RECURSIVE Walk(_, _)
        Walk(list, inherited) ==
            UNION {
                LET explicitAction == MapGet(actions, itemId)
                    isEnabled == IF explicitAction = "enabled" THEN TRUE
                                 ELSE IF explicitAction = "disabled" THEN FALSE
                                 ELSE inherited
                IN (IF isEnabled THEN {itemId} ELSE {})
                   \cup Walk(getChildrenFromFlat(its, itemId), isEnabled)
                : itemId \in list }
    IN Walk(getRootItems(itemList), parentEnabled)

RECURSIVE applyConfig(_, _, _, _)
\* The ids applyConfig(itemList, parentEnabled) adds to `checked`.
applyConfig(its, itemList, parentEnabled, actions) ==
    UNION {
        LET explicitAction == MapGet(actions, itemId)
            isEnabled == IF explicitAction = "enabled" THEN TRUE
                         ELSE IF explicitAction = "disabled" THEN FALSE
                         ELSE parentEnabled
        IN (IF isEnabled THEN {itemId} ELSE {})
           \cup applyConfig(its, getChildrenFromFlat(its, itemId), isEnabled, actions)
        : itemId \in itemList }

\* A state that reads the item's own membership whether or not it has children.
calculateStateOwn(its, checked, item) ==
    [checked |-> item \in checked, indeterminate |-> FALSE]

RECURSIVE calculateState(_, _, _)
\* TreeNodeState of an item, from its loaded children or from checkedItems.
calculateState(its, checked, item) ==
    LET children == getChildrenFromFlat(its, item)
        childStates == {calculateState(its, checked, c) : c \in children}
        allChecked == \A s \in childStates : s.checked /\ ~s.indeterminate
        someChecked == \E s \in childStates : s.checked \/ s.indeterminate
    IN IF children = {}
       THEN [checked |-> item \in checked, indeterminate |-> FALSE]
       ELSE [checked |-> allChecked, indeterminate |-> someChecked /\ ~allChecked]

\* The ids the checkedState Map has an entry for: the root items and what
\* calculateState reaches from them.
StateKeys(its) ==
    getRootItems(its) \cup UNION {getAllDescendantIds(its, r) : r \in getRootItems(its)}

\* A current value read from the checked-id set instead of the display state.
checkedStateOwn(its, checked, itemId) == itemId \in checked

\* checkedState.get(itemId)?.checked
checkedStateChecked(its, checked, itemId) ==
    IF itemId \in StateKeys(its) THEN calculateState(its, checked, itemId).checked
    ELSE FALSE

\* checkedState.get(itemId) || { checked: false, indeterminate: false }
checkedStateGet(its, checked, itemId) ==
    IF itemId \in StateKeys(its) THEN calculateState(its, checked, itemId)
    ELSE [checked |-> FALSE, indeterminate |-> FALSE]

\* An updater that records the item and every loaded descendant explicitly.
toggleActionsTrackingDescendants(its, prev, item, shouldCheck) ==
    LET v == IF shouldCheck THEN "enabled" ELSE "disabled"
        RECURSIVE Over(_, _)
        Over(ks, acc) ==
            IF ks = {} THEN acc
            ELSE LET k == CHOOSE x \in ks : TRUE IN Over(ks \ {k}, MapSet(acc, k, v))
    IN Over(getAllDescendantIds(its, item), MapSet(prev, item, v))

\* An updater that records the item and leaves the descendants' entries.
toggleActionsKeepingDescendants(its, prev, item, shouldCheck) ==
    MapSet(prev, item, IF shouldCheck THEN "enabled" ELSE "disabled")

\* The updater handleToggle passes to setExplicitActions: record the action
\* of the item, then delete the actions of its descendants.
toggleActions(its, prev, item, shouldCheck) ==
    MapDeleteAll(MapSet(prev, item, IF shouldCheck THEN "enabled" ELSE "disabled"),
                 getAllDescendantIds(its, item))

Ids(m, v) ==
    LET sel == SelectSeq(m, LAMBDA e : e.action = v)
    IN [i \in 1..Len(sel) |-> sel[i].id]

generateMinimalConfig(actions) ==
    [enabled |-> Ids(actions, "enabled"), disabled |-> Ids(actions, "disabled")]

ArrayChanged(a, b) ==
    Len(a) # Len(b) \/ \E i \in 1..Len(a) : a[i] # b[i]

\* prevConfig is <<>> for null, <<record>> otherwise.
hasConfigChanged(newConfig, prevConfig) ==
    IF prevConfig = <<>> THEN TRUE
    ELSE ArrayChanged(newConfig.enabled, prevConfig[1].enabled)
         \/ ArrayChanged(newConfig.disabled, prevConfig[1].disabled)

----------------------------------------------------------------------------
\* The component

NoTimer == <<>>

\* The ids the records supplied from outside mention: the root item and
\* its first child, loaded or not.
ConfigIds == {1, 2}

OptionalId == {<<>>} \cup {<<n>> : n \in ConfigIds}

\* The records the consumer may pass as the config prop, among them records
\* that list the same id in both arrays.
SuppliedConfigs == {[enabled |-> e, disabled |-> d] : e \in OptionalId, d \in OptionalId}

\* The items arrays a parent may hold: whole sibling groups, as a loader
\* that fetches the children of one parent delivers them.
Siblings(n) == {k \in Nodes : getParentId(k) = getParentId(n)}
LoadableSets == {its \in SUBSET Nodes : \A n \in its : Siblings(n) \subseteq its}

Step(op, id) == [op |-> op, id |-> id]

\* 'root', the parent id callLoad requests by default; no item has this id.
RootSentinel == 0 - 1

\* The parent ids a loader can be asked for.
LoadIds == Nodes \cup {RootSentinel}

\* No loader and no expansion prop: nothing is requested or expanded.
NoLoading ==
    /\ hasLoader = FALSE
    /\ isControlled = FALSE
    /\ expandedNodes = {}
    /\ loadedParentsRef = {}
    /\ loadingNodes = {}
    /\ loadTimers = {}
    /\ request = [p \in LoadIds |-> "never"]
    /\ mounted = TRUE
    /\ uncaught = FALSE

\* The mounted component before its first effects have run.
Init ==
    /\ items \in LoadableSets
    /\ config \in SuppliedConfigs
    /\ checkedItems = {}
    /\ explicitActions = <<>>
    /\ isApplyingConfig = FALSE
    /\ resetTimer = FALSE
    /\ effectItems = {}
    /\ configChanged = TRUE
    /\ notifyPending = TRUE
    /\ hasCleanup = FALSE
    /\ debounce = NoTimer
    /\ debouncedNotifyConfigChange = FALSE
    /\ previousConfigRef = <<>>
    /\ editedSinceApply = FALSE
    /\ itemsApplied = TRUE
    /\ last = Step("mount", 0)
    /\ nEvents = 0
    /\ NoLoading

\* The deps [items, config] of the apply effect differ from its last run.
ApplyPending == configChanged \/ items # effectItems

\* A clearTimeout that clears nothing.
clearTimeoutNothing(timers, live) == timers

\* clearTimeout(debouncedNotifyConfigChange.current): the newest pending
\* timer is dropped if the ref still holds its id; the id of a timer that
\* fired or was cleared clears nothing.
clearTimeout(timers, live) ==
    IF live THEN SubSeq(timers, 1, Len(timers) - 1) ELSE timers

\* A notify effect that schedules without clearing what is pending.
NotifyEffectNeverClearing(actions, flag) ==
    IF flag THEN <<debounce, FALSE, debouncedNotifyConfigChange>>
    ELSE <<Append(debounce, actions), TRUE, TRUE>>

\* The notify effect (deps [explicitActions]) of a commit whose state is
\* `actions`: the cleanup of the previous run, then the body, which returns
\* early under the flag and else clears the timer of the ref and schedules a
\* new one.  Gives <<debounce, hasCleanup, debouncedNotifyConfigChange>>.
NotifyEffect(actions, flag) ==
    LET cleaned == IF hasCleanup
                   THEN clearTimeout(debounce, debouncedNotifyConfigChange)
                   ELSE debounce
        live == debouncedNotifyConfigChange /\ ~hasCleanup
    IN IF flag THEN <<cleaned, FALSE, live>>
       ELSE <<Append(clearTimeout(cleaned, live), actions), TRUE, TRUE>>

\* The parent passes a new config object.
SetConfig(c) ==
    /\ nEvents < MaxEvents
    /\ nEvents' = nEvents + 1
    /\ ~notifyPending
    /\ config' = c
    /\ configChanged' = TRUE
    /\ last' = Step("config", 0)
    /\ UNCHANGED <<items, checkedItems, explicitActions, isApplyingConfig,
                   resetTimer, effectItems, notifyPending, hasCleanup, debounce,
                   debouncedNotifyConfigChange, previousConfigRef,
                   editedSinceApply, itemsApplied>>
    /\ UNCHANGED loadVars

\* The parent passes an items array grown by the children of parentId.
MergeNodes(parentId) ==
    /\ ~notifyPending
    /\ getChildrenFromFlat(Nodes \ items, parentId) # {}
    /\ items' = items \cup getChildrenFromFlat(Nodes \ items, parentId)
    /\ itemsApplied' = FALSE
    /\ last' = Step("merge", 0)
    /\ UNCHANGED <<config, checkedItems, explicitActions, isApplyingConfig,
                   resetTimer, effectItems, configChanged, notifyPending,
                   hasCleanup, debounce, debouncedNotifyConfigChange,
                   previousConfigRef, editedSinceApply, nEvents>>
    /\ UNCHANGED loadVars

\* The passive effects of the last commit, in declaration order: the apply
\* effect if its deps changed, then the notify effect if explicitActions
\* changed.  The state the apply effect sets is committed at the end and
\* leaves the notify effect pending again.
FlushEffects ==
    /\ ApplyPending \/ notifyPending
    /\ LET runApply == ApplyPending /\ ~isApplyingConfig
           actions == BuildActions(config)
           checked == applyConfig(items, items, FALSE, actions)
           flag == isApplyingConfig \/ runApply
           notified == IF notifyPending THEN NotifyEffect(explicitActions, flag)
                       ELSE <<debounce, hasCleanup, debouncedNotifyConfigChange>>
       IN /\ checkedItems' = IF runApply THEN checked ELSE checkedItems
          /\ explicitActions' = IF runApply THEN actions ELSE explicitActions
          /\ isApplyingConfig' = flag
          /\ resetTimer' = (resetTimer \/ runApply)
          /\ debounce' = notified[1]
          /\ hasCleanup' = notified[2]
          /\ debouncedNotifyConfigChange' = notified[3]
          /\ notifyPending' = runApply
          /\ editedSinceApply' = IF runApply THEN FALSE ELSE editedSinceApply
          /\ itemsApplied' = (runApply \/ itemsApplied)
          /\ last' = Step(IF runApply THEN "apply"
                          ELSE IF ApplyPending THEN "skip" ELSE "notify", 0)
    /\ effectItems' = items
    /\ configChanged' = FALSE
    /\ UNCHANGED <<items, config, previousConfigRef, nEvents>>
    /\ UNCHANGED loadVars

\* setTimeout(() => { isApplyingConfig.current = false }, 0) fires.
ResetFlag ==
    /\ resetTimer
    /\ isApplyingConfig' = FALSE
    /\ resetTimer' = FALSE
    /\ last' = Step("reset", 0)
    /\ UNCHANGED <<items, config, checkedItems, explicitActions, effectItems,
                   configChanged, notifyPending, hasCleanup, debounce,
                   debouncedNotifyConfigChange, previousConfigRef,
                   editedSinceApply, itemsApplied, nEvents>>
    /\ UNCHANGED loadVars

\* A pending debounce timer fires: onConfigChange(newConfig) if the record
\* it synthesizes from the actions it closes over changed.
DebounceFire ==
    /\ debounce # NoTimer
    /\ \E i \in 1..Len(debounce) :
         LET newConfig == generateMinimalConfig(debounce[i])
             changed == hasConfigChanged(newConfig, previousConfigRef)
         IN /\ previousConfigRef' = IF changed THEN <<newConfig>> ELSE previousConfigRef
            /\ last' = Step(IF changed THEN "emit" ELSE "suppress", 0)
            /\ debounce' = SubSeq(debounce, 1, i - 1) \o SubSeq(debounce, i + 1, Len(debounce))
            /\ debouncedNotifyConfigChange' =
                   (debouncedNotifyConfigChange /\ i # Len(debounce))
    /\ UNCHANGED <<items, config, checkedItems, explicitActions, isApplyingConfig,
                   resetTimer, effectItems, configChanged, notifyPending,
                   hasCleanup, editedSinceApply, itemsApplied, nEvents>>
    /\ UNCHANGED loadVars

\* A handleToggle that does not look the item up.
handleToggleAnyId(itemId) ==
    /\ ~ApplyPending /\ ~notifyPending
    /\ LET shouldCheck == ~checkedStateChecked(items, checkedItems, itemId)
           newActions == toggleActions(items, explicitActions, itemId, shouldCheck)
           notified == NotifyEffect(newActions, isApplyingConfig)
       IN /\ checkedItems' = toggleItemsRecursively(items, itemId, shouldCheck, checkedItems)
          /\ explicitActions' = newActions
          /\ debounce' = notified[1]
          /\ hasCleanup' = notified[2]
          /\ debouncedNotifyConfigChange' = notified[3]
    /\ editedSinceApply' = TRUE
    /\ last' = Step(IF itemId \in items THEN "toggle" ELSE "ignored", itemId)
    /\ UNCHANGED <<items, config, isApplyingConfig, resetTimer, effectItems,
                   configChanged, notifyPending, previousConfigRef, itemsApplied>>
    /\ UNCHANGED loadVars

\* handleToggle(itemId), with the commit and the notify effect that follow
\* the click.  For an id no item has it returns before any setState: nothing
\* is rendered and no effect runs.
handleToggle(itemId) ==
    /\ ~ApplyPending /\ ~notifyPending
    /\ IF findItemInFlat(items, itemId) = 0
       THEN /\ last' = Step("ignored", itemId)
            /\ UNCHANGED <<checkedItems, explicitActions, debounce, hasCleanup,
                           debouncedNotifyConfigChange, editedSinceApply>>
       ELSE /\ LET item == findItemInFlat(items, itemId)
                   shouldCheck == ~checkedStateChecked(items, checkedItems, itemId)
                   newActions == toggleActions(items, explicitActions, item, shouldCheck)
                   notified == NotifyEffect(newActions, isApplyingConfig)
               IN /\ checkedItems' = toggleItemsRecursively(items, item, shouldCheck,
                                                            checkedItems)
                  /\ explicitActions' = newActions
                  /\ debounce' = notified[1]
                  /\ hasCleanup' = notified[2]
                  /\ debouncedNotifyConfigChange' = notified[3]
            /\ editedSinceApply' = TRUE
            /\ last' = Step("toggle", itemId)
    /\ UNCHANGED <<items, config, isApplyingConfig, resetTimer, effectItems,
                   configChanged, notifyPending, previousConfigRef, itemsApplied>>
    /\ UNCHANGED loadVars

\* The items SelectableTree can render a checkbox for: the root items and,
\* under expanded parents, what getChildren reaches from them.
Renderable(its) == StateKeys(its)

\* A click on the checkbox of itemId, within the event budget.
Toggle(itemId) ==
    /\ itemId \in Renderable(items)
    /\ nEvents < MaxEvents
    /\ nEvents' = nEvents + 1
    /\ handleToggle(itemId)

Next ==
    \/ \E c \in SuppliedConfigs \cup Range(previousConfigRef) : SetConfig(c)
    \/ \E parentId \in {ROOT_PARENT_ID} \cup Nodes : MergeNodes(parentId)
    \/ FlushEffects
    \/ ResetFlag
    \/ DebounceFire
    \/ \E itemId \in Nodes : Toggle(itemId)

Spec == Init /\ [][Next]_vars

----------------------------------------------------------------------------
\* Toggles alone: the component after it mounted with the empty record over
\* a deeper tree, its mount effects run and the flag reset, then driven by
\* clicks on checkboxes and the debounce timer only.

\* Size of the node universe of the toggle behaviours: ids 1..TreeSize.
TreeSize == 5
\* Number of toggles such a behaviour may hold.
MaxToggles == 3

TreeNodes == 1..TreeSize

TreeSiblings(n) == {k \in TreeNodes : getParentId(k) = getParentId(n)}
TreeLoadableSets ==
    {its \in SUBSET TreeNodes : \A n \in its : TreeSiblings(n) \subseteq its}

ToggleInit ==
    /\ items \in TreeLoadableSets
    /\ config = [enabled |-> <<>>, disabled |-> <<>>]
    /\ checkedItems = {}
    /\ explicitActions = <<>>
    /\ isApplyingConfig = FALSE
    /\ resetTimer = FALSE
    /\ effectItems = items
    /\ configChanged = FALSE
    /\ notifyPending = FALSE
    /\ hasCleanup = FALSE
    /\ debounce = NoTimer
    /\ debouncedNotifyConfigChange = FALSE
    /\ previousConfigRef = <<>>
    /\ editedSinceApply = FALSE
    /\ itemsApplied = TRUE
    /\ last = Step("reset", 0)
    /\ nEvents = 0
    /\ NoLoading

ToggleClick(itemId) ==
    /\ itemId \in Renderable(items)
    /\ nEvents < MaxToggles
    /\ nEvents' = nEvents + 1
    /\ handleToggle(itemId)

\* handleToggle is called with an id that no item of the list has.
ToggleUnknown(itemId) ==
    /\ itemId \notin items
    /\ nEvents' = nEvents
    /\ handleToggle(itemId)

ToggleNext ==
    \/ \E itemId \in TreeNodes : ToggleClick(itemId)
    \/ \E itemId \in TreeNodes : ToggleUnknown(itemId)
    \/ DebounceFire

ToggleSpec == ToggleInit /\ [][ToggleNext]_vars

----------------------------------------------------------------------------
\* The debounce callback alone: a timer is pending over some tracker and
\* some record was emitted before.

\* The trackers and last emitted records range over ids 1..EmitIds.
EmitIds == 3

RECURSIVE MapsOver(_)
\* Every insertion-ordered Map whose keys are in ids.
MapsOver(ids) ==
    {<<>>} \cup UNION {{<<Entry(k, v)>> \o m : m \in MapsOver(ids \ {k}),
                                             v \in {"enabled", "disabled"}}
                      : k \in ids}

EmitInit ==
    /\ items = 1..EmitIds
    /\ explicitActions \in MapsOver(1..EmitIds)
    /\ config = generateMinimalConfig(explicitActions)
    /\ checkedItems = applyConfig(items, items, FALSE, explicitActions)
    /\ isApplyingConfig = FALSE
    /\ resetTimer = FALSE
    /\ effectItems = items
    /\ configChanged = FALSE
    /\ notifyPending = FALSE
    /\ hasCleanup = TRUE
    /\ debounce = <<explicitActions>>
    /\ debouncedNotifyConfigChange = TRUE
    /\ previousConfigRef \in
          {<<>>} \cup {<<generateMinimalConfig(m)>> : m \in MapsOver(1..EmitIds)}
    /\ editedSinceApply = TRUE
    /\ itemsApplied = TRUE
    /\ last = Step("notify", 0)
    /\ nEvents = 0
    /\ NoLoading

EmitNext == DebounceFire

EmitSpec == EmitInit /\ [][EmitNext]_vars

----------------------------------------------------------------------------
\* Lazy loading: the mount effect, the expand buttons, the deferred
\* callLoad and the outcomes of the loader, over the component mounted with
\* the empty record.  The items a loader delivers are merged by the parent
\* when its call returns or its promise resolves.  Pending callLoad timers
\* are kept by id.  The effects of the selection stay pending here: they
\* neither read nor write what callLoad and the expand buttons use.

\* What the loader called for parentId delivers: the items of that parent.
Delivered(parentId) ==
    getChildrenFromFlat(Nodes, IF parentId = RootSentinel THEN ROOT_PARENT_ID
                               ELSE parentId)

RECURSIVE IsRendered(_, _, _)
\* SelectableTree renders a node for the root items and for the children of
\* a rendered, expanded node.
IsRendered(its, expanded, n) ==
    /\ n \in its
    /\ \/ isRootItem(n)
       \/ /\ getParentId(n) \in expanded
          /\ IsRendered(its, expanded, getParentId(n))

\* The node shows its expand button: not the spinner, and it has children
\* or it is collapsed with a loader supplied.
ExpandButtonShown(n) ==
    /\ IsRendered(items, expandedNodes, n)
    /\ n \notin loadingNodes
    /\ \/ getChildrenFromFlat(items, n) # {}
       \/ n \notin expandedNodes /\ hasLoader

\* The selection is untouched; arriving items leave the apply effect pending.
LoadFrame ==
    /\ itemsApplied' = (itemsApplied /\ items' = items)
    /\ UNCHANGED selectionVars
    /\ UNCHANGED <<hasLoader, isControlled>>

\* An invokeLoader whose catch block keeps the id in loadedParentsRef.
invokeLoaderKeepingEntry(parentId, outcome) ==
    /\ loadedParentsRef' = loadedParentsRef \cup {parentId}
    /\ loadingNodes' = IF ~mounted THEN loadingNodes
                       ELSE IF outcome = "promise" THEN loadingNodes \cup {parentId}
                       ELSE loadingNodes \ {parentId}
    /\ uncaught' = (uncaught \/ outcome = "throw")
    /\ request' = [request EXCEPT ![parentId] =
                      IF outcome = "throw" THEN "failed"
                      ELSE IF outcome = "promise" THEN "outstanding" ELSE "ok"]
    /\ items' = IF outcome = "sync" THEN items \cup Delivered(parentId) ELSE items
    /\ last' = Step(IF outcome = "throw" THEN "loadthrow"
                    ELSE IF outcome = "promise" THEN "load" ELSE "loadsync", parentId)

\* The try block of callLoad: the spinner is set, the loader is called and
\* returns (outcome "sync"), throws ("throw") or gives a promise ("promise");
\* the catch block rethrows.  setLoadingNodes is ignored once unmounted.
invokeLoader(parentId, outcome) ==
    /\ loadedParentsRef' = IF outcome = "throw" THEN loadedParentsRef \ {parentId}
                           ELSE loadedParentsRef \cup {parentId}
    /\ loadingNodes' = IF ~mounted THEN loadingNodes
                       ELSE IF outcome = "promise" THEN loadingNodes \cup {parentId}
                       ELSE loadingNodes \ {parentId}
    /\ uncaught' = (uncaught \/ outcome = "throw")
    /\ request' = [request EXCEPT ![parentId] =
                      IF outcome = "throw" THEN "failed"
                      ELSE IF outcome = "promise" THEN "outstanding" ELSE "ok"]
    /\ items' = IF outcome = "sync" THEN items \cup Delivered(parentId) ELSE items
    /\ last' = Step(IF outcome = "throw" THEN "loadthrow"
                    ELSE IF outcome = "promise" THEN "load" ELSE "loadsync", parentId)

\* callLoad returns before it reaches the loader.
returnEarly(parentId) ==
    /\ last' = Step("noload", parentId)
    /\ UNCHANGED <<items, loadedParentsRef, loadingNodes, request, uncaught>>

\* A callLoad without the check of loadedParentsRef.
callLoadUnchecked(parentId, outcome) ==
    IF ~hasLoader THEN returnEarly(parentId) ELSE invokeLoader(parentId, outcome)

callLoad(parentId, outcome) ==
    IF ~hasLoader \/ parentId \in loadedParentsRef
    THEN returnEarly(parentId)
    ELSE invokeLoader(parentId, outcome)

\* The mount effect, which runs again whenever the loader prop is a new
\* function: callLoad('root').  An exception that leaves the effect makes
\* React unmount the component.
MountEffect(outcome) ==
    /\ mounted
    /\ callLoad(RootSentinel, outcome)
    /\ mounted' = ~uncaught'
    /\ UNCHANGED <<expandedNodes, loadTimers>>
    /\ LoadFrame

\* A handleToggleExpand whose collapse forgets the actions of the subtree.
handleToggleExpandForgetting(categoryId) ==
    /\ expandedNodes' = IF categoryId \in expandedNodes
                        THEN expandedNodes \ {categoryId}
                        ELSE expandedNodes \cup {categoryId}
    /\ loadTimers' = IF ~isControlled /\ categoryId \notin expandedNodes
                     THEN loadTimers \cup {categoryId} ELSE loadTimers
    /\ explicitActions' = IF categoryId \in expandedNodes
                          THEN MapDeleteAll(explicitActions,
                                            getAllDescendantIds(items, categoryId))
                          ELSE explicitActions
    /\ last' = Step(IF categoryId \in expandedNodes THEN "collapse" ELSE "expand",
                    categoryId)
    /\ UNCHANGED <<items, itemsApplied, config, checkedItems, isApplyingConfig,
                   resetTimer, effectItems, configChanged, notifyPending,
                   hasCleanup, debounce, debouncedNotifyConfigChange,
                   previousConfigRef, editedSinceApply, nEvents>>
    /\ UNCHANGED <<hasLoader, isControlled, loadedParentsRef, loadingNodes,
                   request, mounted, uncaught>>

\* handleToggleExpand(categoryId).  Controlled: the parent is handed the
\* toggled set and passes it back as the prop.  Uncontrolled: the internal
\* set is toggled and, on expanding an item whose children array is empty
\* (no item of a flat list carries one), callLoad is deferred.
handleToggleExpand(categoryId) ==
    /\ expandedNodes' = IF categoryId \in expandedNodes
                        THEN expandedNodes \ {categoryId}
                        ELSE expandedNodes \cup {categoryId}
    /\ loadTimers' = IF ~isControlled /\ categoryId \notin expandedNodes
                     THEN loadTimers \cup {categoryId} ELSE loadTimers
    /\ last' = Step(IF categoryId \in expandedNodes THEN "collapse" ELSE "expand",
                    categoryId)
    /\ UNCHANGED <<items, loadedParentsRef, loadingNodes, request, mounted, uncaught>>
    /\ LoadFrame

\* A click on the expand button of a node.
ExpandClick(categoryId) ==
    /\ mounted
    /\ ExpandButtonShown(categoryId)
    /\ handleToggleExpand(categoryId)

\* The deferred callLoad(categoryId) runs.
LoadTimerFire(categoryId, outcome) ==
    /\ categoryId \in loadTimers
    /\ loadTimers' = loadTimers \ {categoryId}
    /\ callLoad(categoryId, outcome)
    /\ UNCHANGED <<expandedNodes, mounted>>
    /\ LoadFrame

\* A resolution whose finally leaves the spinner.
LoadResolveKeepingSpinner(parentId) ==
    /\ request[parentId] = "outstanding"
    /\ request' = [request EXCEPT ![parentId] = "ok"]
    /\ items' = items \cup Delivered(parentId)
    /\ last' = Step("resolve", parentId)
    /\ UNCHANGED <<expandedNodes, loadedParentsRef, loadingNodes, loadTimers,
                   mounted, uncaught>>
    /\ LoadFrame

\* The promise of the loader resolves: finally clears the spinner, and the
\* parent holds the delivered items.
LoadResolve(parentId) ==
    /\ request[parentId] = "outstanding"
    /\ request' = [request EXCEPT ![parentId] = "ok"]
    /\ loadingNodes' = IF mounted THEN loadingNodes \ {parentId} ELSE loadingNodes
    /\ items' = items \cup Delivered(parentId)
    /\ last' = Step("resolve", parentId)
    /\ UNCHANGED <<expandedNodes, loadedParentsRef, loadTimers, mounted, uncaught>>
    /\ LoadFrame

\* The promise of the loader rejects: finally clears the spinner, catch
\* removes the id from loadedParentsRef.
LoadReject(parentId) ==
    /\ request[parentId] = "outstanding"
    /\ request' = [request EXCEPT ![parentId] = "failed"]
    /\ loadingNodes' = IF mounted THEN loadingNodes \ {parentId} ELSE loadingNodes
    /\ loadedParentsRef' = loadedParentsRef \ {parentId}
    /\ last' = Step("reject", parentId)
    /\ UNCHANGED <<items, expandedNodes, loadTimers, mounted, uncaught>>
    /\ LoadFrame

\* The component is unmounted: the cleanup of the notify effect clears the
\* debounce timer of the ref; no other timer and no promise is cancelled.
Unmount ==
    /\ mounted
    /\ mounted' = FALSE
    /\ debounce' = IF hasCleanup
                   THEN clearTimeout(debounce, debouncedNotifyConfigChange)
                   ELSE debounce
    /\ last' = Step("unmount", 0)
    /\ UNCHANGED <<items, itemsApplied, config, checkedItems, explicitActions,
                   isApplyingConfig, resetTimer, effectItems, configChanged,
                   notifyPending, hasCleanup, debouncedNotifyConfigChange,
                   previousConfigRef, editedSinceApply, nEvents>>
    /\ UNCHANGED <<hasLoader, isControlled, expandedNodes, loadedParentsRef,
                   loadingNodes, loadTimers, request, uncaught>>

LoadOutcomes == {"sync", "throw", "promise"}

LoadInit ==
    /\ items \in LoadableSets
    /\ config = [enabled |-> <<>>, disabled |-> <<>>]
    /\ checkedItems = {}
    /\ explicitActions = <<>>
    /\ isApplyingConfig = FALSE
    /\ resetTimer = FALSE
    /\ effectItems = {}
    /\ configChanged = TRUE
    /\ notifyPending = TRUE
    /\ hasCleanup = FALSE
    /\ debounce = NoTimer
    /\ debouncedNotifyConfigChange = FALSE
    /\ previousConfigRef = <<>>
    /\ editedSinceApply = FALSE
    /\ itemsApplied = TRUE
    /\ last = Step("mount", 0)
    /\ nEvents = 0
    /\ hasLoader \in BOOLEAN
    /\ isControlled \in BOOLEAN
    /\ expandedNodes = {}
    /\ loadedParentsRef = {}
    /\ loadingNodes = {}
    /\ loadTimers = {}
    /\ request = [p \in LoadIds |-> "never"]
    /\ mounted = TRUE
    /\ uncaught = FALSE

LoadNext ==
    \/ \E outcome \in LoadOutcomes : MountEffect(outcome)
    \/ \E categoryId \in Nodes : ExpandClick(categoryId)
    \/ \E categoryId \in Nodes, outcome \in LoadOutcomes :
          LoadTimerFire(categoryId, outcome)
    \/ \E parentId \in LoadIds : LoadResolve(parentId)
    \/ \E parentId \in LoadIds : LoadReject(parentId)
    \/ Unmount

LoadSpec == LoadInit /\ [][LoadNext]_vars

----------------------------------------------------------------------------
\* Expanding and collapsing next to toggles: the component after its
\* mount, with no loader or with a loader that has answered for every
\* parent id, driven by clicks on the checkboxes and expand buttons that are
\* rendered.  The 0 ms timer of an expand fires before the next expand
\* button is clicked.

ExpandInit ==
    /\ items \in LoadableSets
    /\ config = [enabled |-> <<>>, disabled |-> <<>>]
    /\ checkedItems = {}
    /\ explicitActions = <<>>
    /\ isApplyingConfig = FALSE
    /\ resetTimer = FALSE
    /\ effectItems = items
    /\ configChanged = FALSE
    /\ notifyPending = FALSE
    /\ hasCleanup = FALSE
    /\ debounce = NoTimer
    /\ debouncedNotifyConfigChange = FALSE
    /\ previousConfigRef = <<>>
    /\ editedSinceApply = FALSE
    /\ itemsApplied = TRUE
    /\ last = Step("reset", 0)
    /\ nEvents = 0
    /\ hasLoader \in BOOLEAN
    /\ isControlled \in BOOLEAN
    /\ expandedNodes = {}
    /\ loadedParentsRef = IF hasLoader THEN LoadIds ELSE {}
    /\ loadingNodes = {}
    /\ loadTimers = {}
    /\ request = [p \in LoadIds |-> IF hasLoader THEN "ok" ELSE "never"]
    /\ mounted = TRUE
    /\ uncaught = FALSE

\* A click on the checkbox of a node that is rendered.
CheckboxClick(itemId) ==
    /\ IsRendered(items, expandedNodes, itemId)
    /\ nEvents < MaxEvents
    /\ nEvents' = nEvents + 1
    /\ handleToggle(itemId)

\* A click on an expand button once the timers of earlier expands fired.
ExpandClickInTurn(categoryId) ==
    /\ loadTimers = {}
    /\ ExpandClick(categoryId)

ExpandNext ==
    \/ \E itemId \in Nodes : CheckboxClick(itemId)
    \/ \E categoryId \in Nodes : ExpandClickInTurn(categoryId)
    \/ \E categoryId \in Nodes, outcome \in LoadOutcomes :
          LoadTimerFire(categoryId, outcome)
    \/ DebounceFire

ExpandSpec == ExpandInit /\ [][ExpandNext]_vars

----------------------------------------------------------------------------
\* Applying a record: the component mounted over part of the deeper tree
\* with any record of the set below, the parent passing the same record
\* again as a new object.

\* The ids the applied records mention: the root, its first child and a
\* grandchild, each loaded or not.
ApplyIds == {1, 2, 4}

ApplyArrays == {<<>>} \cup {<<n>> : n \in ApplyIds}

ApplyConfigs == {[enabled |-> e, disabled |-> d] : e \in ApplyArrays, d \in ApplyArrays}

ApplyInit ==
    /\ items \in TreeLoadableSets
    /\ config \in ApplyConfigs
    /\ checkedItems = {}
    /\ explicitActions = <<>>
    /\ isApplyingConfig = FALSE
    /\ resetTimer = FALSE
    /\ effectItems = {}
    /\ configChanged = TRUE
    /\ notifyPending = TRUE
    /\ hasCleanup = FALSE
    /\ debounce = NoTimer
    /\ debouncedNotifyConfigChange = FALSE
    /\ previousConfigRef = <<>>
    /\ editedSinceApply = FALSE
    /\ itemsApplied = TRUE
    /\ last = Step("mount", 0)
    /\ nEvents = 0
    /\ NoLoading

ApplyNext ==
    \/ SetConfig(config)
    \/ FlushEffects
    \/ ResetFlag
    \/ DebounceFire

ApplySpec == ApplyInit /\ [][ApplyNext]_vars

----------------------------------------------------------------------------
\* The walks over a flat list whose parentId fields are arbitrary.  Here
\* `items` is the list with its fields spelled out: a function from the ids
\* of the items to their parentId, 0 for null; a parentId may name the item
\* itself, another item or an id no item has.  A walk that visits one item
\* per iteration or per recursion level returns iff it does so before it
\* has gone through more items than the list holds: beyond that it is at
\* an item it has been at, in the same situation, and repeats for ever.

\* The ids of such lists: 1..WalkIds.
WalkIds == 3

WalkNodes == 1..WalkIds

\* The flat lists over part of the ids.
ItemLists ==
    UNION {[S -> {ROOT_PARENT_ID} \cup WalkNodes] : S \in SUBSET WalkNodes}

\* getChildrenFromFlat over such a list: the ids of the items whose
\* (parentId || null) is parentId.
ChildItems(its, parentId) == {n \in DOMAIN its : its[n] = parentId}

RECURSIVE RecursionReturns(_, _, _)
\* The recursion item -> getChildrenFromFlat(items, id) -> each child, as in
\* applyConfig, collect, calculateState and toggleItemsRecursively, entered
\* at itemId with `depth` items on the stack, returns.
RecursionReturns(its, itemId, depth) ==
    /\ depth < Cardinality(DOMAIN its)
    /\ \A c \in ChildItems(its, itemId) : RecursionReturns(its, c, depth + 1)

RECURSIVE LoopReturns(_, _, _)
\* The while loop of getAncestorIds, at currentItem after `n` iterations,
\* leaves through one of its breaks.
LoopReturns(its, currentItem, n) ==
    \/ its[currentItem] = ROOT_PARENT_ID
    \/ its[currentItem] \notin DOMAIN its
    \/ /\ n < Cardinality(DOMAIN its)
       /\ LoopReturns(its, its[currentItem], n + 1)

\* applyConfig(items, false): the for loop over the whole list.
applyConfigReturns(its) ==
    \A n \in DOMAIN its : RecursionReturns(its, n, 0)

\* rootItems.forEach(calculateState)
calculateStateReturns(its) ==
    \A n \in ChildItems(its, ROOT_PARENT_ID) : RecursionReturns(its, n, 0)

\* getAllDescendantIds(items, item): collect(item).
getAllDescendantIdsReturns(its, itemId) == RecursionReturns(its, itemId, 0)

\* getAncestorIds(items, itemId)
getAncestorIdsReturns(its, itemId) ==
    itemId \in DOMAIN its => LoopReturns(its, itemId, 0)

Walked(op, id, returned) == [op |-> op, id |-> id, returned |-> returned]

WalkInit ==
    /\ items \in ItemLists
    /\ config = [enabled |-> <<>>, disabled |-> <<>>]
    /\ checkedItems = {}
    /\ explicitActions = <<>>
    /\ isApplyingConfig = FALSE
    /\ resetTimer = FALSE
    /\ effectItems = {}
    /\ configChanged = TRUE
    /\ notifyPending = TRUE
    /\ hasCleanup = FALSE
    /\ debounce = NoTimer
    /\ debouncedNotifyConfigChange = FALSE
    /\ previousConfigRef = <<>>
    /\ editedSinceApply = FALSE
    /\ itemsApplied = TRUE
    /\ last = Step("mount", 0)
    /\ nEvents = 0
    /\ NoLoading

WalkFrame == UNCHANGED <<items, itemsApplied, selectionVars, loadVars>>

\* The resolution of the apply effect runs over the list.
WalkApplyConfig ==
    /\ last' = Walked("applyConfig", 0, applyConfigReturns(items))
    /\ WalkFrame

\* The aggregation of the checkedState memo runs over the list.
WalkCalculateState ==
    /\ last' = Walked("calculateState", 0, calculateStateReturns(items))
    /\ WalkFrame

\* The descendants of an item are collected.
WalkDescendants(itemId) ==
    /\ itemId \in DOMAIN items
    /\ last' = Walked("getAllDescendantIds", itemId,
                      getAllDescendantIdsReturns(items, itemId))
    /\ WalkFrame

\* The ancestors of an item are collected.
WalkAncestors(itemId) ==
    /\ itemId \in DOMAIN items
    /\ last' = Walked("getAncestorIds", itemId, getAncestorIdsReturns(items, itemId))
    /\ WalkFrame

WalkNext ==
    \/ WalkApplyConfig
    \/ WalkCalculateState
    \/ \E itemId \in WalkNodes : WalkDescendants(itemId)
    \/ \E itemId \in WalkNodes : WalkAncestors(itemId)

WalkSpec == WalkInit /\ [][WalkNext]_vars

----------------------------------------------------------------------------
\* The root items of a flat list whose parentId fields take every kind of
\* value.  Here `items` is a function from the ids of the items to the
\* value of their parentId field: an id, null (0), 'root', the empty string
\* or no field at all.

\* An item without a parentId field.
Absent == 0 - 2

\* parentId: ''
EmptyString == 0 - 3

FieldValues == WalkNodes \cup {ROOT_PARENT_ID, RootSentinel, Absent, EmptyString}

FieldLists == UNION {[S -> FieldValues] : S \in SUBSET WalkNodes}

\* getParentId(item): item.parentId || null.
getParentIdOfField(field) ==
    IF field \in {Absent, ROOT_PARENT_ID, EmptyString} THEN ROOT_PARENT_ID ELSE field

\* isRootItem(item): getParentId(item) === null.
isRootField(field) == getParentIdOfField(field) = ROOT_PARENT_ID

\* getRootItems(items): items.filter(isRootItem), which SelectableTree
\* renders and the checkedState memo starts from.
getRootItemsOfFields(its) == {n \in DOMAIN its : isRootField(its[n])}

RootInit ==
    /\ items \in FieldLists
    /\ config = [enabled |-> <<>>, disabled |-> <<>>]
    /\ checkedItems = {}
    /\ explicitActions = <<>>
    /\ isApplyingConfig = FALSE
    /\ resetTimer = FALSE
    /\ effectItems = {}
    /\ configChanged = TRUE
    /\ notifyPending = TRUE
    /\ hasCleanup = FALSE
    /\ debounce = NoTimer
    /\ debouncedNotifyConfigChange = FALSE
    /\ previousConfigRef = <<>>
    /\ editedSinceApply = FALSE
    /\ itemsApplied = TRUE
    /\ last = Step("mount", 0)
    /\ nEvents = 0
    /\ NoLoading

\* The render: hierarchicalItems = getRootItems(items).
RenderRoots ==
    /\ last' = [op |-> "getRootItems", id |-> 0, roots |-> getRootItemsOfFields(items)]
    /\ WalkFrame

\* isRootItem is called on one item.
CallIsRootItem(itemId) ==
    /\ itemId \in DOMAIN items
    /\ last' = [op |-> "isRootItem", id |-> itemId, result |-> isRootField(items[itemId])]
    /\ WalkFrame

RootNext ==
    \/ RenderRoots
    \/ \E itemId \in WalkNodes : CallIsRootItem(itemId)

RootSpec == RootInit /\ [][RootNext]_vars

----------------------------------------------------------------------------
\* getOptimizedConfig over part of the deeper tree and the records whose
\* arrays hold ids of ApplyIds without repetition.

RECURSIVE getAncestorIds(_, _)
\* The ids getAncestorIds pushes: the parentId of the item and, as long as
\* the parent is found in the list, those of its ancestors.
getAncestorIds(its, itemId) ==
    IF findItemInFlat(its, itemId) = 0 \/ getParentId(itemId) = ROOT_PARENT_ID
    THEN {}
    ELSE {getParentId(itemId)}
           \cup (IF findItemInFlat(its, getParentId(itemId)) = 0 THEN {}
                 ELSE getAncestorIds(its, getParentId(itemId)))

getOptimizedConfig(its, cfg) ==
    LET enabledSet == Range(cfg.enabled)
        disabledSet == Range(cfg.disabled)
        hasEnabledAncestor(id) == getAncestorIds(its, id) \cap enabledSet # {}
        hasDisabledAncestor(id) == getAncestorIds(its, id) \cap disabledSet # {}
        keepEnabled(id) == findItemInFlat(its, id) = 0 \/ ~hasEnabledAncestor(id)
        keepDisabled(id) ==
            findItemInFlat(its, id) = 0
              \/ (~hasDisabledAncestor(id) /\ hasEnabledAncestor(id))
    IN [enabled |-> SelectSeq(cfg.enabled, keepEnabled),
        disabled |-> SelectSeq(cfg.disabled, keepDisabled)]

RECURSIVE ArraysOver(_)
\* The arrays that hold ids of the set, each at most once.
ArraysOver(ids) ==
    {<<>>} \cup UNION {{<<n>> \o a : a \in ArraysOver(ids \ {n})} : n \in ids}

OptimizeConfigs ==
    {[enabled |-> e, disabled |-> d] : e \in ArraysOver(ApplyIds), d \in ArraysOver(ApplyIds)}

OptimizeInit ==
    /\ items \in TreeLoadableSets
    /\ config \in OptimizeConfigs
    /\ checkedItems = {}
    /\ explicitActions = <<>>
    /\ isApplyingConfig = FALSE
    /\ resetTimer = FALSE
    /\ effectItems = {}
    /\ configChanged = TRUE
    /\ notifyPending = TRUE
    /\ hasCleanup = FALSE
    /\ debounce = NoTimer
    /\ debouncedNotifyConfigChange = FALSE
    /\ previousConfigRef = <<>>
    /\ editedSinceApply = FALSE
    /\ itemsApplied = TRUE
    /\ last = Step("mount", 0)
    /\ nEvents = 0
    /\ NoLoading

\* getOptimizedConfig(items, config) is called.
Optimize ==
    /\ last' = [op |-> "getOptimizedConfig", id |-> 0,
                result |-> getOptimizedConfig(items, config)]
    /\ WalkFrame

\* getAncestorIds(items, itemId) is called.
Ancestors(itemId) ==
    /\ last' = [op |-> "getAncestorIds", id |-> itemId,
                result |-> getAncestorIds(items, itemId)]
    /\ WalkFrame

OptimizeNext ==
    \/ Optimize
    \/ \E itemId \in TreeNodes : Ancestors(itemId)

OptimizeSpec == OptimizeInit /\ [][OptimizeNext]_vars

----------------------------------------------------------------------------
\* buildGenericTree over the flat lists of the root items section.  The
\* tree is the set of the ids in rootItems with, for every entry of
\* itemsMap, the ids pushed onto its children array.

buildGenericTree(its) ==
    LET isRoot(n) == its[n] \in {Absent, ROOT_PARENT_ID, EmptyString}
    IN [rootItems |-> {n \in DOMAIN its : isRoot(n)},
        children |-> [p \in DOMAIN its |->
                        {n \in DOMAIN its : ~isRoot(n) /\ its[n] = p}]]

BuildInit ==
    /\ items \in FieldLists
    /\ config = [enabled |-> <<>>, disabled |-> <<>>]
    /\ checkedItems = {}
    /\ explicitActions = <<>>
    /\ isApplyingConfig = FALSE
    /\ resetTimer = FALSE
    /\ effectItems = {}
    /\ configChanged = TRUE
    /\ notifyPending = TRUE
    /\ hasCleanup = FALSE
    /\ debounce = NoTimer
    /\ debouncedNotifyConfigChange = FALSE
    /\ previousConfigRef = <<>>
    /\ editedSinceApply = FALSE
    /\ itemsApplied = TRUE
    /\ last = Step("mount", 0)
    /\ nEvents = 0
    /\ NoLoading

\* buildGenericTree(items) is called.
BuildTree ==
    /\ last' = [op |-> "buildGenericTree", id |-> 0, tree |-> buildGenericTree(items)]
    /\ WalkFrame

BuildNext == BuildTree

BuildSpec == BuildInit /\ [][BuildNext]_vars

----------------------------------------------------------------------------
\* The component under a consumer that keeps the config in its own state:
\* onConfigChange stores the record it is given, which comes back as the
\* config prop, and now and then the consumer sets a record of its own.
\* The consumer and the user act when nothing is in flight, so that no
\* event meets the apply flag or a pending timer.

MaxEchoEvents == 3

\* Nothing is in flight: no debounce timer is pending, the apply flag is
\* reset, every effect has run and no load is outstanding.
Quiescent ==
    /\ debounce = NoTimer
    /\ ~isApplyingConfig /\ ~resetTimer
    /\ ~ApplyPending /\ ~notifyPending
    /\ loadTimers = {} /\ loadingNodes = {}

\* The records the consumer sets by itself: no id is in both arrays.
OwnConfigs == {c \in SuppliedConfigs : Range(c.enabled) \cap Range(c.disabled) = {}}

EchoInit ==
    /\ items \in LoadableSets
    /\ config = [enabled |-> <<>>, disabled |-> <<>>]
    /\ checkedItems = {}
    /\ explicitActions = <<>>
    /\ isApplyingConfig = FALSE
    /\ resetTimer = FALSE
    /\ effectItems = {}
    /\ configChanged = TRUE
    /\ notifyPending = TRUE
    /\ hasCleanup = FALSE
    /\ debounce = NoTimer
    /\ debouncedNotifyConfigChange = FALSE
    /\ previousConfigRef = <<>>
    /\ editedSinceApply = FALSE
    /\ itemsApplied = TRUE
    /\ last = Step("mount", 0)
    /\ nEvents = 0
    /\ NoLoading

\* A pending debounce timer fires; the record onConfigChange is called with
\* is stored by the consumer and is the config prop of the next render.
DebounceFireEchoed ==
    /\ debounce # NoTimer
    /\ \E i \in 1..Len(debounce) :
         LET newConfig == generateMinimalConfig(debounce[i])
             changed == hasConfigChanged(newConfig, previousConfigRef)
         IN /\ previousConfigRef' = IF changed THEN <<newConfig>> ELSE previousConfigRef
            /\ config' = IF changed THEN newConfig ELSE config
            /\ configChanged' = (configChanged \/ changed)
            /\ last' = Step(IF changed THEN "emit" ELSE "suppress", 0)
            /\ debounce' = SubSeq(debounce, 1, i - 1) \o SubSeq(debounce, i + 1, Len(debounce))
            /\ debouncedNotifyConfigChange' =
                   (debouncedNotifyConfigChange /\ i # Len(debounce))
    /\ UNCHANGED <<items, checkedItems, explicitActions, isApplyingConfig,
                   resetTimer, effectItems, notifyPending, hasCleanup,
                   editedSinceApply, itemsApplied, nEvents>>
    /\ UNCHANGED loadVars

\* The consumer sets a record of its own.
OwnConfig(c) ==
    /\ Quiescent
    /\ nEvents < MaxEchoEvents
    /\ nEvents' = nEvents + 1
    /\ config' = c
    /\ configChanged' = TRUE
    /\ last' = Step("config", 0)
    /\ UNCHANGED <<items, checkedItems, explicitActions, isApplyingConfig,
                   resetTimer, effectItems, notifyPending, hasCleanup, debounce,
                   debouncedNotifyConfigChange, previousConfigRef,
                   editedSinceApply, itemsApplied>>
    /\ UNCHANGED loadVars

\* A click on the checkbox of itemId.
EchoToggle(itemId) ==
    /\ Quiescent
    /\ itemId \in Renderable(items)
    /\ nEvents < MaxEchoEvents
    /\ nEvents' = nEvents + 1
    /\ handleToggle(itemId)

EchoNext ==
    \/ \E c \in OwnConfigs : OwnConfig(c)
    \/ FlushEffects
    \/ ResetFlag
    \/ DebounceFireEchoed
    \/ \E itemId \in Nodes : EchoToggle(itemId)

EchoSpec == EchoInit /\ [][EchoNext]_vars

----------------------------------------------------------------------------
\* isItemEnabled and getAllEnabledItemIds of utils.ts over nested trees.
\* Here `items` is the nested array itself: a sequence of items, each with
\* its id and its children array, and no id occurs twice in it.

RECURSIVE Rooted(_, _, _)
\* Following the parentId fields from n leads to a root item of the list.
Rooted(its, n, steps) ==
    \/ its[n] = ROOT_PARENT_ID
    \/ /\ its[n] \in DOMAIN its
       /\ steps < Cardinality(DOMAIN its)
       /\ Rooted(its, its[n], steps + 1)

RECURSIVE SortedArray(_)
\* The array that holds the ids of the set in ascending order.
SortedArray(ids) ==
    IF ids = {} THEN <<>>
    ELSE LET least == CHOOSE x \in ids : \A y \in ids : x <= y
         IN <<least>> \o SortedArray(ids \ {least})

RECURSIVE Nested(_, _)
\* The nested array of the items of a flat list that lie under parentId.
Nested(its, parentId) ==
    LET ids == SortedArray(ChildItems(its, parentId))
    IN [i \in 1..Len(ids) |-> [id |-> ids[i], children |-> Nested(its, ids[i])]]

\* The nested trees over part of the ids.
NestedTrees ==
    {Nested(its, ROOT_PARENT_ID) :
        its \in {f \in ItemLists : \A n \in DOMAIN f : Rooted(f, n, 0)}}

\* The records over the ids; an id may be in both arrays.
NestedConfigs ==
    {[enabled |-> SortedArray(e), disabled |-> SortedArray(d)] :
        e \in SUBSET WalkNodes, d \in SUBSET WalkNodes}

RECURSIVE findItemPath(_, _)
\* The items from a root down to the item with targetId, in the order of
\* the depth-first search; the empty sequence stands for null.
findItemPath(targetId, its) ==
    IF its = <<>> THEN <<>>
    ELSE LET item == Head(its)
             childPath == findItemPath(targetId, item.children)
         IN IF item.id = targetId THEN <<item>>
            ELSE IF childPath # <<>> THEN <<item>> \o childPath
            ELSE findItemPath(targetId, Tail(its))

\* An isItemEnabled that looks at the disabled array first.
isItemEnabledDisabledFirst(itemId, cfg, its) ==
    LET path == findItemPath(itemId, its)
        enabledSet == Range(cfg.enabled)
        disabledSet == Range(cfg.disabled)
        RECURSIVE Along(_, _)
        Along(i, currentState) ==
            IF i > Len(path) THEN currentState
            ELSE Along(i + 1, IF path[i].id \in disabledSet THEN FALSE
                              ELSE IF path[i].id \in enabledSet THEN TRUE
                              ELSE currentState)
    IN IF path = <<>> THEN FALSE ELSE Along(1, FALSE)

\* isItemEnabled: along the path from the root, an entry in enabled sets
\* the state, else an entry in disabled clears it.
isItemEnabled(itemId, cfg, its) ==
    LET path == findItemPath(itemId, its)
        enabledSet == Range(cfg.enabled)
        disabledSet == Range(cfg.disabled)
        RECURSIVE Along(_, _)
        Along(i, currentState) ==
            IF i > Len(path) THEN currentState
            ELSE Along(i + 1, IF path[i].id \in enabledSet THEN TRUE
                              ELSE IF path[i].id \in disabledSet THEN FALSE
                              ELSE currentState)
    IN IF path = <<>> THEN FALSE ELSE Along(1, FALSE)

RECURSIVE traverse(_, _, _)
\* The ids traverse adds to enabledIds for itemList under parentEnabled.
traverse(itemList, parentEnabled, cfg) ==
    IF itemList = <<>> THEN {}
    ELSE LET item == Head(itemList)
             currentEnabled ==
                 IF item.id \in Range(cfg.enabled) THEN TRUE
                 ELSE IF item.id \in Range(cfg.disabled) THEN FALSE
                 ELSE parentEnabled
         IN (IF currentEnabled THEN {item.id} ELSE {})
              \cup traverse(item.children, currentEnabled, cfg)
              \cup traverse(Tail(itemList), parentEnabled, cfg)

getAllEnabledItemIds(cfg, its) == traverse(its, FALSE, cfg)

NestedInit ==
    /\ items \in NestedTrees
    /\ config \in NestedConfigs
    /\ checkedItems = {}
    /\ explicitActions = <<>>
    /\ isApplyingConfig = FALSE
    /\ resetTimer = FALSE
    /\ effectItems = {}
    /\ configChanged = TRUE
    /\ notifyPending = TRUE
    /\ hasCleanup = FALSE
    /\ debounce = NoTimer
    /\ debouncedNotifyConfigChange = FALSE
    /\ previousConfigRef = <<>>
    /\ editedSinceApply = FALSE
    /\ itemsApplied = TRUE
    /\ last = Step("mount", 0)
    /\ nEvents = 0
    /\ NoLoading

\* isItemEnabled(itemId, config, items) is called.
CallIsItemEnabled(itemId) ==
    /\ last' = [op |-> "isItemEnabled", id |-> itemId,
                result |-> isItemEnabled(itemId, config, items)]
    /\ WalkFrame

\* getAllEnabledItemIds(config, items) is called.
CallGetAllEnabledItemIds ==
    /\ last' = [op |-> "getAllEnabledItemIds", id |-> 0,
                result |-> getAllEnabledItemIds(config, items)]
    /\ WalkFrame

NestedNext ==
    \/ \E itemId \in WalkNodes : CallIsItemEnabled(itemId)
    \/ CallGetAllEnabledItemIds

NestedSpec == NestedInit /\ [][NestedNext]_vars

----------------------------------------------------------------------------
\* Vocabulary of the properties, stated by walking parent links upwards

RECURSIVE IsLoadedDescendant(_, _, _)
\* d is reached from x through parent links that stay inside the loaded items.
IsLoadedDescendant(its, d, x) ==
    /\ d \in its
    /\ \/ getParentId(d) = x
       \/ getParentId(d) \in its /\ IsLoadedDescendant(its, getParentId(d), x)

LoadedDescendants(its, x) == {d \in its : IsLoadedDescendant(its, d, x)}

RECURSIVE NearestAction(_, _, _)
\* The action of the nearest node with an entry in m on the loaded
\* ancestor-or-self chain of n, "none" if the chain holds no entry.
NearestAction(its, m, n) ==
    IF MapHas(m, n) THEN MapGet(m, n)
    ELSE IF getParentId(n) \in its THEN NearestAction(its, m, getParentId(n))
    ELSE "none"

\* The inheritance resolution of an actions map over the loaded items.
Resolution(its, m) == {n \in its : NearestAction(its, m, n) = "enabled"}

RecordIds(cfg) == Range(cfg.enabled) \cup Range(cfg.disabled)

RECURSIVE NearestInRecord(_, _, _)
\* The nearest node of the loaded ancestor-or-self chain of n that appears
\* in the record, 0 if none does.
NearestInRecord(its, cfg, n) ==
    IF n \in RecordIds(cfg) THEN n
    ELSE IF getParentId(n) \in its THEN NearestInRecord(its, cfg, getParentId(n))
    ELSE 0

Record(e, d) == [enabled |-> e, disabled |-> d]

EmptyRecord == Record(<<>>, <<>>)

WellFormed(cfg) == Range(cfg.enabled) \cap Range(cfg.disabled) = {}

\* The flat items of the scenario of C6: root 1 with children a = 2, b = 3.
RootOnly == {n \in Nodes : isRootItem(n)}
RootAndChildren == RootOnly \cup {n \in Nodes : getParentId(n) \in RootOnly}

----------------------------------------------------------------------------
RECURSIVE Below(_, _, _)
\* The ids met in a built tree when the children arrays are followed for
\* `depth` levels from the nodes of `from`.
Below(tree, from, depth) ==
    IF depth = 0 \/ from = {} THEN from
    ELSE from \cup Below(tree, UNION {tree.children[n] : n \in from}, depth - 1)

\* The ids that appear in a built tree.
TreeIds(tree) == Below(tree, tree.rootItems, Cardinality(DOMAIN tree.children))

RECURSIVE IsBelow(_, _)
\* d is a descendant of x by the parentId fields, loaded or not.
IsBelow(d, x) ==
    /\ getParentId(d) # ROOT_PARENT_ID
    /\ (getParentId(d) = x \/ IsBelow(getParentId(d), x))

\* C1: a merge of newly loaded nodes leaves the Edit Tracker, and so the
\* synthesized record, as it was: the effects that run because only the
\* items changed do not change explicitActions.
C1_LoadKeepsTracker ==
    [][(FlushEffects /\ ~configChanged /\ items # effectItems)
         => /\ explicitActions' = explicitActions
            /\ generateMinimalConfig(explicitActions')
                 = generateMinimalConfig(explicitActions)]_vars

\* C2: after a record is applied, a loaded node is checked iff the nearest
\* node of its ancestor-or-self chain that appears in the record is in
\* enabled; with no such node it is unchecked.
C2_NearestOverrideDecides ==
    last.op = "apply" =>
        \A n \in items :
            n \in checkedItems
              <=> /\ NearestInRecord(items, config, n) # 0
                  /\ NearestInRecord(items, config, n) \in Range(config.enabled)

\* The same over records whose arrays are disjoint (holds; see C2, C23).
NearestOverrideDecidesWellFormed ==
    (last.op = "apply" /\ WellFormed(config)) => C2_NearestOverrideDecides

\* C3: from an empty Edit Tracker, a toggle on a parent whose loaded
\* descendants are all unchecked leaves the tracker with the single entry
\* parent -> enabled, so the synthesized record is enabled = [parent],
\* disabled = [], while every loaded descendant is checked; a timer the
\* toggle scheduled closes over that tracker, and when it fires right after
\* the toggle that very record is handed to onConfigChange, unless it is the
\* record last emitted.
C3_ToggleParentFromEmpty ==
    [][/\ \A x \in Nodes :
            ( /\ last'.op = "toggle" /\ last'.id = x
              /\ explicitActions = <<>>
              /\ LoadedDescendants(items, x) # {}
              /\ ({x} \cup LoadedDescendants(items, x)) \cap checkedItems = {} )
            => /\ explicitActions' = <<Entry(x, "enabled")>>
               /\ generateMinimalConfig(explicitActions') = Record(<<x>>, <<>>)
               /\ ({x} \cup LoadedDescendants(items, x)) \subseteq checkedItems'
               /\ debounce' # NoTimer => debounce'[1] = explicitActions'
       /\ \A x \in Nodes :
            ( /\ DebounceFire
              /\ last.op = "toggle" /\ last.id = x
              /\ debounce[1] = <<Entry(x, "enabled")>>
              /\ previousConfigRef # <<Record(<<x>>, <<>>)>> )
            => /\ last'.op = "emit"
               /\ previousConfigRef' = <<Record(<<x>>, <<>>)>>
               /\ RecordIds(previousConfigRef'[1]) \cap LoadedDescendants(items, x) = {}
      ]_vars

\* Reached: one event only, the toggle of root 1 with children 2 and 3
\* loaded and an empty record, and its emission.
C3_Witness ==
    /\ last.op = "emit"
    /\ nEvents = 1
    /\ config = EmptyRecord
    /\ items = RootAndChildren
    /\ checkedItems = RootAndChildren
    /\ previousConfigRef = <<Record(<<1>>, <<>>)>>

\* C4: right after a toggle on a loaded node x the Edit Tracker maps x to
\* "enabled" if x became checked and to "disabled" otherwise, holds no key
\* that is a loaded descendant of x, and every key outside the subtree of x
\* keeps its value.
C4_ToggleUpdatesTracker ==
    [][\A x \in Nodes :
          (last'.op = "toggle" /\ last'.id = x)
          => /\ MapGet(explicitActions', x)
                  = (IF x \in checkedItems' THEN "enabled" ELSE "disabled")
             /\ MapKeys(explicitActions') \cap LoadedDescendants(items, x) = {}
             /\ \A k \in Nodes \ ({x} \cup LoadedDescendants(items, x)) :
                    MapGet(explicitActions', k) = MapGet(explicitActions, k)
      ]_vars

\* Reached: the record named child 2, the toggle of its parent 1 removed
\* that entry.
C4_Witness ==
    /\ last.op = "toggle" /\ last.id = 1
    /\ nEvents = 1
    /\ 2 \in items
    /\ 2 \in RecordIds(config)
    /\ ~MapHas(explicitActions, 2)
    /\ MapHas(explicitActions, 1)

\* C5: round trip.  While no items arrived since the last apply, applying
\* the record synthesized from the Edit Tracker over the same items gives
\* the current checked-id set, which is the inheritance resolution of the
\* Edit Tracker.
C5_RoundTrip ==
    itemsApplied =>
        /\ applyConfig(items, items, FALSE,
                       BuildActions(generateMinimalConfig(explicitActions)))
             = checkedItems
        /\ checkedItems = Resolution(items, explicitActions)

\* Reached: after an apply and a toggle, a tracker of two entries with
\* checked and unchecked loaded nodes.
C5_Witness ==
    /\ editedSinceApply
    /\ itemsApplied
    /\ Len(explicitActions) >= 2
    /\ checkedItems # {}
    /\ items \ checkedItems # {}

\* C6: the scenario on root 1 with children a = 2 and b = 3.  (i) With only
\* the root loaded, an empty record and an empty tracker, the toggle of the
\* root checks it and the synthesized record is enabled = [1], disabled = [].
\* (ii) When a and b have then been merged, the effects of that merge leave
\* the record unchanged and both children display checked.  (iii) The toggle
\* of a off then gives the record enabled = [1], disabled = [2], the root
\* displays indeterminate and b stays checked.
C6_Scenario ==
    [][/\ ( /\ last'.op = "toggle" /\ last'.id = 1
            /\ items = RootOnly /\ config = EmptyRecord
            /\ explicitActions = <<>> /\ checkedItems = {} )
          => /\ 1 \in checkedItems'
             /\ generateMinimalConfig(explicitActions') = Record(<<1>>, <<>>)
       /\ ( /\ FlushEffects
            /\ last.op = "merge" /\ nEvents = 1
            /\ effectItems = RootOnly /\ items = RootAndChildren
            /\ explicitActions = <<Entry(1, "enabled")>> /\ checkedItems = {1} )
          => /\ generateMinimalConfig(explicitActions') = Record(<<1>>, <<>>)
             /\ \A c \in {2, 3} : calculateState(items', checkedItems', c).checked
       /\ ( /\ last'.op = "toggle" /\ last'.id = 2
            /\ items = RootAndChildren
            /\ explicitActions = <<Entry(1, "enabled")>>
            /\ checkedItems = RootAndChildren )
          => /\ generateMinimalConfig(explicitActions') = Record(<<1>>, <<2>>)
             /\ calculateState(items', checkedItems', 1).indeterminate
             /\ calculateState(items', checkedItems', 3).checked
      ]_vars

\* C7: an apply never by itself leads to a call of onConfigChange: while no
\* toggle was processed since the last apply, no debounce timer is pending
\* and no record is emitted.
C7_ApplyNeverEmits ==
    ~editedSinceApply => (debounce = NoTimer /\ last.op # "emit")

\* C8: every toggle schedules a debounced emission: right after a toggle a
\* debounce timer is pending and closes over the tracker the toggle produced.
C8_ToggleSchedulesEmission ==
    last.op = "toggle" => (debounce # NoTimer /\ debounce[1] = explicitActions)

\* C9: every external record that arrives is applied: once the effects of a
\* commit that changed the config prop have run, the Edit Tracker is the
\* direct copy of that record and the checked-id set is its resolution
\* (stated over records whose two arrays are disjoint).
C9_EveryRecordApplied ==
    [][(FlushEffects /\ configChanged /\ WellFormed(config))
         => /\ Range(explicitActions')
                 = {Entry(i, "enabled") : i \in Range(config.enabled)}
                   \cup {Entry(i, "disabled") : i \in Range(config.disabled)}
            /\ Len(explicitActions') = Cardinality(RecordIds(config))
            /\ checkedItems' = Resolution(items, explicitActions')]_vars

\* C10: after every node merge the derived state is recomputed: once the
\* effects of a commit that changed the items have run, each newly arrived
\* node without an entry of its own is checked iff its nearest overridden
\* loaded ancestor is enabled.
C10_MergeRecomputes ==
    [][(FlushEffects /\ items # effectItems)
         => \A n \in items \ effectItems :
                ~MapHas(explicitActions', n)
                  => (n \in checkedItems'
                        <=> NearestAction(items, explicitActions', n) = "enabled")]_vars

C13_AtMostOneTimer ==
    Len(debounce) <= 1

\* Reached: a second toggle was processed, no timer has fired so far, and
\* one timer is pending.
C13_Witness ==
    /\ last.op = "toggle"
    /\ nEvents = 2
    /\ config = EmptyRecord
    /\ previousConfigRef = <<>>
    /\ Len(explicitActions) = 2
    /\ Len(debounce) = 1
    /\ debouncedNotifyConfigChange

\* C12: when the debounce timer fires the record is emitted if and only if
\* it differs from the last emitted record as a pair of sets (nothing
\* emitted before counts as different); a pure reordering is not emitted.
C12_EmitOnlyOnContentChange ==
    [][DebounceFire
         => \A i \in 1..Len(debounce) :
              (debounce' = SubSeq(debounce, 1, i - 1) \o SubSeq(debounce, i + 1, Len(debounce)))
              => (last'.op = "emit"
                    <=> \/ previousConfigRef = <<>>
                        \/ Range(generateMinimalConfig(debounce[i]).enabled)
                             # Range(previousConfigRef[1].enabled)
                        \/ Range(generateMinimalConfig(debounce[i]).disabled)
                             # Range(previousConfigRef[1].disabled))]_vars

\* C14: every record emitted through onConfigChange, and every record a
\* pending timer would emit, has disjoint enabled and disabled arrays,
\* whatever records were applied before.
C14_EmittedRecordDisjoint ==
    /\ previousConfigRef # <<>>
         => Range(previousConfigRef[1].enabled) \cap Range(previousConfigRef[1].disabled) = {}
    /\ \A i \in 1..Len(debounce) :
         Range(generateMinimalConfig(debounce[i]).enabled)
           \cap Range(generateMinimalConfig(debounce[i]).disabled) = {}

\* Reached: a record listing an id in both arrays was applied and a record
\* naming that id was emitted.
C14_Witness ==
    /\ last.op = "emit"
    /\ Range(config.enabled) \cap Range(config.disabled) # {}
    /\ Range(config.enabled) \cap RecordIds(previousConfigRef[1]) # {}

\* C15: the synthesized record is minimal: no loaded node with an overridden
\* loaded ancestor is recorded with the very value it would inherit from the
\* nearest such ancestor.
C15_RecordMinimal ==
    \A n \in MapKeys(explicitActions) \cap items :
        (/\ getParentId(n) \in items
         /\ NearestAction(items, explicitActions, getParentId(n)) # "none")
        => MapGet(explicitActions, n)
             # NearestAction(items, explicitActions, getParentId(n))

\* The display state as C16 words it, from the loaded children by parent
\* links.
RECURSIVE Aggregate(_, _, _)
Aggregate(its, checked, n) ==
    LET kids == {c \in its : getParentId(c) = n}
        On == [checked |-> TRUE, indeterminate |-> FALSE]
        Off == [checked |-> FALSE, indeterminate |-> FALSE]
    IN IF kids = {} THEN [checked |-> n \in checked, indeterminate |-> FALSE]
       ELSE IF \A c \in kids : Aggregate(its, checked, c) = On THEN On
       ELSE IF \A c \in kids : Aggregate(its, checked, c) = Off THEN Off
       ELSE [checked |-> FALSE, indeterminate |-> TRUE]

LoaderCalls == {"load", "loadsync", "loadthrow"}

\* C18: the loader is not called for a parent id, the root sentinel
\* included, whose last request is outstanding or has succeeded; only a
\* failed request is followed by another call for the same id.
C18_LoaderCalledOncePerRequest ==
    [][\A p \in LoadIds :
          (last'.op \in LoaderCalls /\ last'.id = p)
              => request[p] \notin {"outstanding", "ok"}]_vars

\* A node was loaded, collapsed and expanded again, and the deferred callLoad
\* returned without calling the loader.
C18_Witness ==
    \E p \in Nodes :
        /\ last = Step("noload", p)
        /\ hasLoader
        /\ request[p] = "ok"
        /\ request[RootSentinel] \in {"ok", "outstanding"}

\* C19: with a loader supplied, expanding a node that has no loaded
\* children and was never requested leads to a loader call for its id, in
\* uncontrolled and in controlled expansion mode: the expanding click leaves
\* the deferred callLoad for that id pending.
C19_ExpandCallsLoader ==
    [][\A n \in Nodes :
          (/\ last' = Step("expand", n)
           /\ hasLoader
           /\ request[n] = "never"
           /\ getChildrenFromFlat(items, n) = {})
              => n \in loadTimers']_vars

\* C20: a parent id whose loader call threw or whose promise rejected is
\* not in loadedParentsRef nor, in the mounted component, in loadingNodes,
\* and the callLoad of a later expand of that node calls the loader again.
C20_FailureAllowsRetry ==
    [][\A p \in LoadIds :
          /\ request'[p] = "failed"
                => /\ p \notin loadedParentsRef'
                   /\ mounted => p \notin loadingNodes'
          /\ (request[p] = "failed" /\ last'.id = p
                 /\ last'.op \in LoaderCalls \cup {"noload"})
                => last'.op \in LoaderCalls]_vars

\* A node whose request failed has been expanded again: its deferred
\* callLoad is pending and nothing keeps it from calling the loader.
C20_Witness ==
    \E p \in Nodes :
        /\ request[p] = "failed"
        /\ p \in loadTimers
        /\ p \in expandedNodes
        /\ p \notin loadedParentsRef
        /\ p \notin loadingNodes
        /\ mounted
        /\ request[RootSentinel] = "ok"

\* C21: a failing loader, throwing or rejecting, lets no exception leave
\* the component: the mount effect and the callLoad of an expand complete
\* normally.
C21_NoExceptionEscapes == ~uncaught

\* C22: while the component is mounted, loadingNodes is the set of the
\* parent ids whose loader call has been issued and has not completed.
C22_LoadingIsOutstanding ==
    mounted => loadingNodes = {p \in LoadIds : request[p] = "outstanding"}

\* One request has just settled while another is still awaited.
C22_Witness ==
    /\ mounted
    /\ last.op \in {"resolve", "reject"}
    /\ last.id \notin loadingNodes
    /\ loadingNodes # {}

\* C27: once the component is unmounted no step changes loadedParentsRef,
\* loadingNodes, explicitActions or checkedItems, calls the loader or
\* emits a record.
C27_NothingAfterTeardown ==
    [][~mounted =>
          /\ loadedParentsRef' = loadedParentsRef
          /\ loadingNodes' = loadingNodes
          /\ explicitActions' = explicitActions
          /\ checkedItems' = checkedItems
          /\ last'.op \notin LoaderCalls \cup {"emit"}]_vars

\* The nodes whose parentId names a node that is not in the items.
Orphans(its) ==
    {n \in its : getParentId(n) # ROOT_PARENT_ID /\ getParentId(n) \notin its}

\* C23: after a record that lists an id in both enabled and disabled is
\* applied, the Edit Tracker maps the id to 'enabled' and the id, if
\* loaded, is checked, as are its loaded descendants without an entry of
\* their own on the way.
C23_EnabledWinsWhenInBoth ==
    last.op = "apply" =>
        \A id \in Range(config.enabled) \cap Range(config.disabled) :
            /\ MapGet(explicitActions, id) = "enabled"
            /\ \A n \in (items \cap {id}) \cup LoadedDescendants(items, id) :
                   NearestInRecord(items, config, n) = id => n \in checkedItems

\* C26: after a record is applied, a loaded node whose parent is not loaded
\* is checked iff its own entry is 'enabled', and each of its loaded
\* descendants is checked iff the nearest entry on its chain up to that
\* node is 'enabled'.
C26_OrphanResolvedAsRoot ==
    last.op = "apply" =>
        \A o \in Orphans(items) :
            /\ o \in checkedItems <=> MapGet(explicitActions, o) = "enabled"
            /\ \A d \in LoadedDescendants(items, o) :
                   d \in checkedItems
                     <=> NearestAction(items, explicitActions, d) = "enabled"

\* An orphan enabled by its own entry, with a loaded child that inherits
\* from it and one that is disabled by an entry of its own.
C26_Witness ==
    /\ last.op = "apply"
    /\ \E o \in Orphans(items) :
          /\ MapGet(explicitActions, o) = "enabled"
          /\ o \in checkedItems
          /\ \E d \in LoadedDescendants(items, o) :
                ~MapHas(explicitActions, d) /\ d \in checkedItems
          /\ \E d \in LoadedDescendants(items, o) :
                MapGet(explicitActions, d) = "disabled" /\ d \notin checkedItems

C24_UnknownToggleIsNoOp ==
    [][\A itemId \in TreeNodes \ items :
          handleToggle(itemId)
            => /\ explicitActions' = explicitActions
               /\ checkedItems' = checkedItems
               /\ debounce' = debounce
               /\ notifyPending' = notifyPending]_vars

\* An unknown id was toggled after a toggle that checked some node and
\* whose emission has already run.
C24_Witness ==
    /\ last.op = "ignored"
    /\ last.id \notin items
    /\ explicitActions # <<>>
    /\ checkedItems # {}
    /\ debounce = NoTimer

\* C30: the last row of the state table, on root A = 1 with loaded children
\* A.1 = 2 and A.2 = 3.  After {enabled: [A]} was applied and A.1 toggled
\* off (tracker {A: 'enabled', A.1: 'disabled'}, A and A.2 checked), the next
\* click on A leaves every node unchecked and the tracker and the
\* synthesized record empty.
C30_SecondClickClearsAll ==
    [][( /\ last'.op = "toggle" /\ last'.id = 1
         /\ items = RootAndChildren
         /\ config = Record(<<1>>, <<>>)
         /\ explicitActions = <<Entry(1, "enabled"), Entry(2, "disabled")>>
         /\ checkedItems = {1, 3} )
          => /\ checkedItems' = {}
             /\ explicitActions' = <<>>
             /\ generateMinimalConfig(explicitActions') = EmptyRecord]_vars

\* C28: a collapse, the expand that follows it and the deferred callLoad
\* of that expand change neither checkedItems, the display state of any
\* node, nor explicitActions.
C28_ReExpandKeepsSelection ==
    [][last'.op \in {"collapse", "expand", "noload"}
          => /\ checkedItems' = checkedItems
             /\ explicitActions' = explicitActions
             /\ \A n \in Nodes :
                   checkedStateGet(items', checkedItems', n)
                     = checkedStateGet(items, checkedItems, n)]_vars

\* A node is expanded again after a child of it, shown by an earlier
\* expand, was toggled and left it indeterminate.
C28_Witness ==
    \E p \in Nodes :
        /\ last = Step("expand", p)
        /\ \E c \in getChildrenFromFlat(items, p) : MapHas(explicitActions, c)
        /\ checkedStateGet(items, checkedItems, p).indeterminate

WalkOps == {"applyConfig", "calculateState", "getAllDescendantIds", "getAncestorIds"}

\* C25: resolution, aggregation, the collection of descendants and the
\* walk over the ancestors return on every finite list of items, also when
\* parentId fields form a cycle or an item names itself as its parent.
C25_WalksTerminate == last.op \in WalkOps => last.returned

\* C31: an item whose parentId is 'root', null, the empty string or absent
\* is a top-level item: isRootItem is true for it and getRootItems, from
\* which the tree is rendered and the display state computed, holds it.
C31_SentinelParentIsRoot ==
    /\ last.op = "isRootItem"
          => (items[last.id] \in {RootSentinel, ROOT_PARENT_ID, EmptyString, Absent}
                => last.result)
    /\ last.op = "getRootItems"
          => \A n \in DOMAIN items :
                items[n] \in {RootSentinel, ROOT_PARENT_ID, EmptyString, Absent}
                  => n \in last.roots

\* C32: getOptimizedConfig removes redundant entries only: under the record
\* it returns every loaded item has the enabled/disabled state, by its
\* nearest entry and disabled without one, that it has under the record
\* passed in.  Stated for the records whose arrays are disjoint.
C32_OptimizeKeepsResolution ==
    (last.op = "getOptimizedConfig" /\ WellFormed(config))
      => Resolution(items, BuildActions(last.result))
           = Resolution(items, BuildActions(config))

\* C33: buildGenericTree drops no item: an item whose parentId is falsy or
\* names no item of the input is among the roots, and every item of the
\* input appears in the tree.
C33_BuildKeepsEveryItem ==
    last.op = "buildGenericTree"
      => /\ \A n \in DOMAIN items :
              (isRootField(items[n]) \/ items[n] \notin DOMAIN items)
                => n \in last.tree.rootItems
         /\ TreeIds(last.tree) = DOMAIN items

\* C34: under a consumer that stores every emitted record and passes it
\* back, whenever nothing is in flight the config of the consumer equals,
\* as a pair of sets, the record synthesized from the Edit Tracker, also
\* after the consumer has set a record of its own between two toggles.
C34_QuiescentConfigIsTracker ==
    Quiescent
      => LET record == generateMinimalConfig(explicitActions)
         IN /\ Range(config.enabled) = Range(record.enabled)
            /\ Range(config.disabled) = Range(record.disabled)

\* C35: after a toggle on X the Edit Tracker holds no entry for any
\* descendant of X, the descendants that the applied record lists and that
\* are not loaded yet included.
C35_ToggleClearsAllDescendants ==
    last.op = "toggle"
      => \A d \in Nodes : IsBelow(d, last.id) => ~MapHas(explicitActions, d)

\* C36: the display-state map has an entry for every item of the items
\* array, the items whose parent is not loaded included.
C36_EveryItemHasDisplayState == \A n \in items : n \in StateKeys(items)

\* C37: the loader is never called for a node that has a loaded child in
\* the flat list: expanding such a node shows the children it has.  A call
\* that throws or gives a promise leaves the items as they were at the call.
C37_NoLoadForLoadedChildren ==
    (last.op \in {"load", "loadthrow"} /\ last.id \in Nodes)
      => getChildrenFromFlat(items, last.id) = {}

\* C38: on every nested tree with unique ids and every record, a record
\* with an id in both arrays included, isItemEnabled(id, config, items) is
\* true exactly for the ids getAllEnabledItemIds(config, items) holds.
C38_EnabledAgreesWithEnabledIds ==
    /\ last.op = "isItemEnabled"
          => (last.result <=> last.id \in getAllEnabledItemIds(config, items))
    /\ last.op = "getAllEnabledItemIds"
          => \A id \in WalkNodes :
                id \in last.result <=> isItemEnabled(id, config, items)

\* isItemEnabled has answered true for a nested item that the record lists
\* in both arrays.
C38_Witness ==
    /\ last.op = "isItemEnabled"
    /\ last.result
    /\ last.id \in Range(config.enabled) \cap Range(config.disabled)
    /\ Len(findItemPath(last.id, items)) >= 2

====
